---- MODULE Spec2Model ----
(***************************************************************************)
(* A model of hw2_1.py: the CSV loader get_data, the hierarchy builder     *)
(* get_teams, the report aggregator get_reports, the exporter              *)
(* make_report_csv and the menu of main.                                   *)
(*                                                                         *)
(* A file is the sequence of records csv.reader yields from it: record 1   *)
(* is the header (column names, strings), the others are data rows whose   *)
(* cells are texts.  A text is a tuple of one-character strings, so that   *)
(* int(), str() and the float repr are computed character by character.    *)
(* mean_salary is kept in hundredths: 467 stands for the float 4.67.       *)
(***************************************************************************)
EXTENDS Integers, Sequences, FiniteSets, TLC

VARIABLES disk, file, mode, pc, teams, report, err, stdout, outname

vars == <<disk, file, mode, pc, teams, report, err, stdout, outname>>

(***************************************************************************)
(* Bounds of the model.                                                    *)
(***************************************************************************)
\* the size of an input file: the cells of its data rows, a row of a
\* header without columns counting as one cell
MaxCells == 9

(***************************************************************************)
(* Texts.                                                                  *)
(***************************************************************************)
Digits == <<"0", "1", "2", "3", "4", "5", "6", "7", "8", "9">>

IsDigit(c) == \E i \in DOMAIN Digits : Digits[i] = c

DigitValue(c) == (CHOOSE i \in DOMAIN Digits : Digits[i] = c) - 1

\* the code point of a character of the model's alphabet
Ord(c) == IF IsDigit(c) THEN 48 + DigitValue(c)
          ELSE IF c = "." THEN 46
          ELSE IF c = "-" THEN 45
          ELSE 120

\* s < t for two str values: code point by code point, a proper prefix first
RECURSIVE StrLess(_, _)
StrLess(s, t) ==
    IF s = <<>> THEN t # <<>>
    ELSE IF t = <<>> THEN FALSE
    ELSE IF Ord(Head(s)) # Ord(Head(t)) THEN Ord(Head(s)) < Ord(Head(t))
    ELSE StrLess(Tail(s), Tail(t))

\* sorted(set(...)): the elements of S as an increasing list
RECURSIVE sorted(_)
sorted(S) ==
    IF S = {} THEN <<>>
    ELSE LET m == CHOOSE x \in S : \A y \in S : x = y \/ StrLess(x, y)
         IN  <<m>> \o sorted(S \ {m})

\* whether int(cell) succeeds, for the texts of the model's alphabet: a
\* non-empty run of digits after an optional minus sign
IntLiteral(cell) ==
    LET body == IF cell # <<>> /\ Head(cell) = "-" THEN Tail(cell) ELSE cell
    IN  body # <<>> /\ \A i \in DOMAIN body : IsDigit(body[i])

RECURSIVE DigitsValue(_)
DigitsValue(ds) ==
    IF ds = <<>> THEN 0
    ELSE 10 * DigitsValue(SubSeq(ds, 1, Len(ds) - 1)) + DigitValue(ds[Len(ds)])

\* int(cell) for a cell with IntLiteral(cell)
int(cell) ==
    IF Head(cell) = "-" THEN 0 - DigitsValue(Tail(cell)) ELSE DigitsValue(cell)

RECURSIVE NatStr(_)
NatStr(n) ==
    IF n < 10 THEN <<Digits[n + 1]>>
    ELSE NatStr(n \div 10) \o <<Digits[(n % 10) + 1]>>

\* str(n) of an int, as csv.writer writes it
str(n) == IF n < 0 THEN <<"-">> \o NatStr(0 - n) ELSE NatStr(n)

\* repr of the float h / 100, as csv.writer writes it: the shortest decimal,
\* with at least one digit after the point
repr(h) ==
    LET a    == IF h < 0 THEN 0 - h ELSE h
        frac == a % 100
        tail == IF frac % 10 = 0 THEN <<Digits[(frac \div 10) + 1]>>
                ELSE <<Digits[(frac \div 10) + 1], Digits[(frac % 10) + 1]>>
    IN  (IF h < 0 THEN <<"-">> ELSE <<>>) \o NatStr(a \div 100) \o <<".">> \o tail

(***************************************************************************)
(* Lists of ints.                                                          *)
(***************************************************************************)
RECURSIVE sum(_)
sum(xs) == IF xs = <<>> THEN 0 ELSE Head(xs) + sum(Tail(xs))

min(xs) == CHOOSE m \in {xs[i] : i \in DOMAIN xs} : \A i \in DOMAIN xs : m <= xs[i]

max(xs) == CHOOSE m \in {xs[i] : i \in DOMAIN xs} : \A i \in DOMAIN xs : m >= xs[i]

\* round(num / den, 2) in hundredths: the nearest hundredth, a tie to the even one
round2(num, den) ==
    LET q == (100 * num) \div den
        r == (100 * num) % den
    IN  IF 2 * r < den THEN q
        ELSE IF 2 * r > den THEN q + 1
        ELSE IF q % 2 = 0 THEN q ELSE q + 1

(***************************************************************************)
(* File names and the disk.  A name is a tuple of parts; the extension is  *)
(* the part ".csv".  The disk maps the paths that exist to their records.  *)
(***************************************************************************)
\* lines 23-24 and 135-136: a ".csv" suffix is appended if absent
with_csv(name) ==
    IF name # <<>> /\ name[Len(name)] = ".csv" THEN name ELSE Append(name, ".csv")

DataPath == <<"data", ".csv">>

\* names typed at the first prompt; only data.csv exists
InNames == {<<"data">>, <<"data", ".csv">>, <<"nofile">>}

\* names typed at make_report_csv's prompt
OutNames == {<<"rep">>, <<"rep", ".csv">>}

\* the header row make_report_csv writes (лейблы: Департамент, Минимальная
\* зарплата, Максимальная зарплата, Численность, Средняя запрлата)
ReportHeader == <<"Departament", "Minimalnaya zarplata", "Maksimalnaya zarplata",
                  "Chislennost", "Srednyaya zaprlata">>

(***************************************************************************)
(* get_data                                                                *)
(***************************************************************************)
\* the keys of {tag: [] for tag in tags}: the distinct tags, in the order of
\* their first occurrence
RECURSIVE dict_keys(_)
dict_keys(tags) ==
    IF tags = <<>> THEN <<>>
    ELSE LET init == dict_keys(SubSeq(tags, 1, Len(tags) - 1))
             last == tags[Len(tags)]
         IN  IF \E i \in DOMAIN init : init[i] = last THEN init
             ELSE Append(init, last)

\* what lines 31-32 append to content[tag] for one row
RECURSIVE row_appends(_, _, _, _)
row_appends(tags, row, tag, i) ==
    IF i > Len(tags) THEN <<>>
    ELSE (IF tags[i] = tag THEN <<row[i]>> ELSE <<>>)
         \o row_appends(tags, row, tag, i + 1)

\* content[tag] after the loop of lines 30-32 over rows
RECURSIVE column(_, _, _)
column(tags, rows, tag) ==
    IF rows = <<>> THEN <<>>
    ELSE row_appends(tags, Head(rows), tag, 1) \o column(tags, Tail(rows), tag)

\* get_data(file) on disk d: err is "none" or the exception raised; keys is
\* list(content.keys())
get_data(d, name) ==
    LET path == with_csv(name)
        recs == d[path]
        tags == Head(recs)
        rows == Tail(recs)
        keys == dict_keys(tags)
    IN  IF path \notin DOMAIN d
          THEN [err |-> "FileNotFoundError@35", keys |-> <<>>, content |-> <<>>]
        ELSE IF recs = <<>>
          THEN [err |-> "StopIteration@28", keys |-> <<>>, content |-> <<>>]
        ELSE IF \E r \in DOMAIN rows : Len(rows[r]) < Len(tags)
          THEN [err |-> "IndexError@32", keys |-> <<>>, content |-> <<>>]
        ELSE [err |-> "none", keys |-> keys,
              content |-> [tag \in {keys[i] : i \in DOMAIN keys} |->
                              column(tags, rows, tag)]]

(***************************************************************************)
(* get_teams                                                               *)
(***************************************************************************)
\* a faulty variant of list_index_fails: the bound is off by one, as if the
\* code indexed one position further
list_index_fails_off_by_one(xs, i) == Len(xs) <= i + 1

\* xs[i] with the 0-based index i raises IndexError
list_index_fails(xs, i) == Len(xs) <= i

\* the length of zip(xs, ys)
zip_len(xs, ys) == IF Len(xs) < Len(ys) THEN Len(xs) ELSE Len(ys)

\* lines 70-72: one set per distinct department, filled in lock-step
teams_of(departments, divisions) ==
    [dep \in {departments[i] : i \in DOMAIN departments} |->
        {divisions[i] : i \in {j \in 1..zip_len(departments, divisions) :
                                  departments[j] = dep}}]

get_teams(d, name) ==
    LET data == get_data(d, name)
    IN  IF data.err # "none" THEN [err |-> data.err, val |-> <<>>]
        ELSE IF list_index_fails(data.keys, 1)
          THEN [err |-> "IndexError@67", val |-> <<>>]
        ELSE IF list_index_fails(data.keys, 2)
          THEN [err |-> "IndexError@69", val |-> <<>>]
        ELSE [err |-> "none",
              val |-> teams_of(data.content[data.keys[2]], data.content[data.keys[3]])]

(***************************************************************************)
(* get_reports                                                             *)
(***************************************************************************)
\* lines 91-93 for one department: the salaries zipped with it, in row order
RECURSIVE salaries_of(_, _, _, _)
salaries_of(departments, salaries, dep, i) ==
    IF i > zip_len(departments, salaries) THEN <<>>
    ELSE (IF departments[i] = dep THEN <<int(salaries[i])>> ELSE <<>>)
         \o salaries_of(departments, salaries, dep, i + 1)

\* a faulty variant of aggregate: min and max exchanged
aggregate_swapped(salaries) ==
    [min_salary  |-> max(salaries),
     max_salary  |-> min(salaries),
     head_count  |-> Len(salaries),
     mean_salary |-> round2(sum(salaries), Len(salaries))]

\* lines 96-101 for a non-empty salary list
aggregate(salaries) ==
    [min_salary  |-> min(salaries),
     max_salary  |-> max(salaries),
     head_count  |-> Len(salaries),
     mean_salary |-> round2(sum(salaries), Len(salaries))]

\* the index in the zip of a salary int() rejects
bad_salary(departments, salaries) ==
    \E i \in 1..zip_len(departments, salaries) : ~IntLiteral(salaries[i])

\* a department no zipped row belongs to: min([]) raises at line 96
empty_department(departments, salaries) ==
    \E dep \in {departments[i] : i \in DOMAIN departments} :
        \A i \in 1..zip_len(departments, salaries) : departments[i] # dep

get_reports(d, name) ==
    LET data        == get_data(d, name)
        departments == data.content[data.keys[2]]
        salaries    == data.content[data.keys[Len(data.keys)]]
    IN  IF data.err # "none" THEN [err |-> data.err, val |-> <<>>]
        ELSE IF list_index_fails(data.keys, 1)
          THEN [err |-> "IndexError@88", val |-> <<>>]
        ELSE IF bad_salary(departments, salaries)
          THEN [err |-> "ValueError@93", val |-> <<>>]
        ELSE IF empty_department(departments, salaries)
          THEN [err |-> "ValueError@96", val |-> <<>>]
        ELSE [err |-> "none",
              val |-> [dep \in {departments[i] : i \in DOMAIN departments} |->
                          aggregate(salaries_of(departments, salaries, dep, 1))]]

(***************************************************************************)
(* print_teams, print_report, make_report_csv                              *)
(***************************************************************************)
\* lines 49-52: per department, its name, the number of its teams, the teams;
\* a dict built from sorted keys is iterated in that order
print_teams(data) ==
    LET deps == sorted(DOMAIN data)
    IN  [i \in 1..Len(deps) |->
            <<deps[i], str(Cardinality(data[deps[i]])), data[deps[i]]>>]

\* lines 115-121: per department, its name, head count, fork and mean
print_report(rep) ==
    LET deps == sorted(DOMAIN rep)
    IN  [i \in 1..Len(deps) |->
            <<deps[i], str(rep[deps[i]].head_count),
              str(rep[deps[i]].min_salary), str(rep[deps[i]].max_salary),
              repr(rep[deps[i]].mean_salary)>>]

\* a faulty variant of report_row: the dict of lines 100-101 filled in
\* another order, head_count before max_salary
report_row_reordered(department, data) ==
    <<department, str(data.min_salary), str(data.head_count),
      str(data.max_salary), repr(data.mean_salary)>>

\* line 142: [department] + list(data.values()), each field as csv.writer
\* writes it; data's keys were inserted as min_salary, max_salary, head_count,
\* mean_salary (lines 100-101)
report_row(department, data) ==
    <<department, str(data.min_salary), str(data.max_salary),
      str(data.head_count), repr(data.mean_salary)>>

\* a faulty variant of report_records: line 142 outside the loop, so that
\* only the last department is written
report_records_last_only(rep) ==
    LET deps == sorted(DOMAIN rep)
    IN  <<ReportHeader>> \o
        (IF deps = <<>> THEN <<>>
         ELSE <<<<deps[Len(deps)], str(rep[deps[Len(deps)]].min_salary),
                  str(rep[deps[Len(deps)]].max_salary),
                  str(rep[deps[Len(deps)]].head_count),
                  repr(rep[deps[Len(deps)]].mean_salary)>>>>)

\* lines 139-142: the records written to the opened file
report_records(rep) ==
    LET deps == sorted(DOMAIN rep)
    IN  <<ReportHeader>> \o [i \in 1..Len(deps) |-> report_row(deps[i], rep[deps[i]])]

(***************************************************************************)
(* Input files.                                                            *)
(***************************************************************************)
\* header rows: the expected layouts with 0 to 4 columns, and layouts that
\* repeat a column name
Headers ==
    { <<>>, <<"id">>, <<"id", "id">>, <<"id", "dept">>,
      <<"id", "dept", "salary">>, <<"id", "dept", "dept">>,
      <<"id", "dept", "team", "salary">>, <<"id", "dept", "dept", "salary">>,
      <<"id", "dept", "salary", "salary">> }

\* the cells of the first column, and of the other columns
IdCells == { <<"1">> }
Cells == { <<"2">>, <<"1", "0">>, <<"x">> }

\* the data rows under header h: a value for every header position, or a
\* blank line (csv.reader yields [] for it)
RowsOf(h) ==
    { r \in [DOMAIN h -> IdCells \cup Cells] :
        \A i \in DOMAIN h : IF i = 1 THEN r[i] \in IdCells ELSE r[i] \in Cells }
    \cup { <<>> }

SeqsUpTo(S, n) == UNION { [1..k -> S] : k \in 0..n }

\* the number of data rows a file of at most n cells has under header h
MaxRowsOf(h, n) == n \div (IF h = <<>> THEN 1 ELSE Len(h))

\* the files with a header of hs and at most n cells, and the empty file
Files(hs, n) ==
    UNION { { <<h>> \o rows : rows \in SeqsUpTo(RowsOf(h), MaxRowsOf(h, n)) } : h \in hs }
    \cup { <<>> }

(***************************************************************************)
(* main                                                                    *)
(***************************************************************************)
\* the numbers typed at the menu; 4 stands for any number outside {1, 2, 3}
Modes == {1, 2, 3, 4}

\* a faulty variant of after_call: an exception of get_reports is swallowed
\* under selection 3 and make_report_csv runs all the same
after_call_swallowing(e, next) ==
    IF e = "none" \/ next = "make_report_csv" THEN next ELSE "failed"

\* an exception raised by a call leaves main; otherwise main goes on
after_call(e, next) == IF e = "none" THEN next ELSE "failed"

InitOn(files) ==
    /\ disk \in { (DataPath :> f) : f \in files }
    /\ file = <<>>
    /\ mode = 0
    /\ pc = "input"
    /\ teams = <<>>
    /\ report = <<>>
    /\ err = "none"
    /\ stdout = <<>>
    /\ outname = <<>>

Init == InitOn(Files(Headers, MaxCells))

\* lines 146-152: the file name and a menu number are read
ReadInputs ==
    /\ pc = "input"
    /\ \E name \in InNames, m \in Modes :
          /\ file' = name
          /\ mode' = m
    /\ pc' = "menu"
    /\ UNCHANGED <<disk, teams, report, err, stdout, outname>>

\* line 148: int() of a menu answer that is no number
MenuNotInt ==
    /\ pc = "input"
    /\ \E name \in InNames : file' = name
    /\ err' = "ValueError@148"
    /\ pc' = "failed"
    /\ UNCHANGED <<disk, mode, teams, report, stdout, outname>>

\* line 155
CallGetTeams ==
    /\ pc = "menu" /\ mode = 1
    /\ LET r == get_teams(disk, file)
       IN  /\ err' = r.err
           /\ teams' = IF r.err = "none" THEN <<r.val>> ELSE teams
           /\ pc' = after_call(r.err, "print_teams")
    /\ UNCHANGED <<disk, file, mode, report, stdout, outname>>

\* line 156
PrintTeams ==
    /\ pc = "print_teams"
    /\ stdout' = stdout \o print_teams(teams[1])
    /\ pc' = "done"
    /\ UNCHANGED <<disk, file, mode, teams, report, err, outname>>

\* line 158
CallGetReports ==
    /\ pc = "menu" /\ mode = 2
    /\ LET r == get_reports(disk, file)
       IN  /\ err' = r.err
           /\ report' = IF r.err = "none" THEN <<r.val>> ELSE report
           /\ pc' = after_call(r.err, "print_report")
    /\ UNCHANGED <<disk, file, mode, teams, stdout, outname>>

\* line 159
PrintReport ==
    /\ pc = "print_report"
    /\ stdout' = stdout \o print_report(report[1])
    /\ pc' = "done"
    /\ UNCHANGED <<disk, file, mode, teams, report, err, outname>>

\* line 161: the argument get_reports(file) is evaluated before the call
CallGetReportsForCsv ==
    /\ pc = "menu" /\ mode = 3
    /\ LET r == get_reports(disk, file)
       IN  /\ err' = r.err
           /\ report' = IF r.err = "none" THEN <<r.val>> ELSE report
           /\ pc' = after_call(r.err, "make_report_csv")
    /\ UNCHANGED <<disk, file, mode, teams, stdout, outname>>

\* lines 134-137: the name is prompted for and the file is opened for writing
MakeReportCsvOpen ==
    /\ pc = "make_report_csv"
    /\ \E name \in OutNames :
          /\ outname' = with_csv(name)
          /\ disk' = (with_csv(name) :> <<>>) @@ disk
    /\ pc' = "write"
    /\ UNCHANGED <<file, mode, teams, report, err, stdout>>

\* lines 138-142: the header row and one row per item of the report
MakeReportCsvWrite ==
    /\ pc = "write"
    /\ disk' = [disk EXCEPT ![outname] = report_records(report[1])]
    /\ pc' = "done"
    /\ UNCHANGED <<file, mode, teams, report, err, stdout, outname>>

\* lines 162-163
InvalidMode ==
    /\ pc = "menu" /\ mode \notin {1, 2, 3}
    /\ err' = "KeyError@163"
    /\ pc' = "failed"
    /\ UNCHANGED <<disk, file, mode, teams, report, stdout, outname>>

Next ==
    \/ ReadInputs
    \/ MenuNotInt
    \/ CallGetTeams
    \/ PrintTeams
    \/ CallGetReports
    \/ PrintReport
    \/ CallGetReportsForCsv
    \/ MakeReportCsvOpen
    \/ MakeReportCsvWrite
    \/ InvalidMode

Spec == Init /\ [][Next]_vars

(***************************************************************************)
(* What the properties below speak of.                                     *)
(***************************************************************************)
\* main has called get_teams or get_reports and the call has ended
Returned == pc \notin {"input", "menu"} /\ mode \in {1, 2, 3}

\* the input file opened by the call, its header and its data rows
InputRecords == disk[DataPath]
InputHeader == Head(InputRecords)
InputRows == Tail(InputRecords)

\* the table get_data returned to the call
Table == get_data(disk, file)
TableDepartments == Table.content[Table.keys[2]]
TableSalaries == Table.content[Table.keys[Len(Table.keys)]]

\* the column names of the input file are pairwise distinct
DistinctNames ==
    InputRecords # <<>> => \A i, j \in DOMAIN InputHeader : InputHeader[i] = InputHeader[j] => i = j

\* row holds value v in a column named tag
RowHas(row, tag, v) ==
    \E i \in DOMAIN InputHeader : InputHeader[i] = tag /\ row[i] = v

\* the sum of head_count over the departments of a report
HeadCountTotal(rep) ==
    LET deps == sorted(DOMAIN rep)
    IN  sum([i \in 1..Len(deps) |-> rep[deps[i]].head_count])

\* float(text) in hundredths, for a text of digits, a point and one or two digits
float100(text) ==
    LET p    == CHOOSE i \in DOMAIN text : text[i] = "."
        frac == SubSeq(text, p + 1, Len(text))
    IN  100 * DigitsValue(SubSeq(text, 1, p - 1))
        + (IF Len(frac) = 1 THEN 10 * DigitsValue(frac) ELSE DigitsValue(frac))

FloatLiteral(text) ==
    /\ Cardinality({i \in DOMAIN text : text[i] = "."}) = 1
    /\ \A i \in DOMAIN text : text[i] = "." \/ IsDigit(text[i])
    /\ LET p == CHOOSE i \in DOMAIN text : text[i] = "."
       IN  p > 1 /\ Len(text) - p \in {1, 2}

(***************************************************************************)
(* C1.  The head counts of a returned report sum to the number of data     *)
(* rows of the input file: every row is counted in exactly one department. *)
(***************************************************************************)
C1_HeadCountsSumToRows ==
    report # <<>> => HeadCountTotal(report[1]) = Len(InputRows)

\* C1 restricted to input files whose column names are pairwise distinct
C1_DistinctNames ==
    (report # <<>> /\ DistinctNames) => HeadCountTotal(report[1]) = Len(InputRows)

(***************************************************************************)
(* C2.  The keys of a returned hierarchy are the values of the department  *)
(* column, and a division is in a department's set exactly if some row     *)
(* holds that department and that division.                                *)
(***************************************************************************)
C2_HierarchyMatchesRows ==
    teams # <<>> =>
        LET out == teams[1]
            dep == Table.keys[2]
            div == Table.keys[3]
        IN  /\ DOMAIN out = {v \in Cells : \E r \in DOMAIN InputRows :
                                              RowHas(InputRows[r], dep, v)}
            /\ \A D \in DOMAIN out : \A V \in Cells :
                  V \in out[D] <=>
                      \E r \in DOMAIN InputRows :
                          RowHas(InputRows[r], dep, D) /\ RowHas(InputRows[r], div, V)

\* C2 restricted to input files whose column names are pairwise distinct
C2_DistinctNames ==
    DistinctNames => C2_HierarchyMatchesRows

C4_BadSalaryNoReport ==
    ( /\ Returned /\ mode \in {2, 3}
      /\ Table.err = "none" /\ Len(Table.keys) >= 2
      /\ \E i \in DOMAIN TableSalaries : ~IntLiteral(TableSalaries[i]) )
    => (err = "ValueError@93" /\ report = <<>>)

\* C4 restricted to input files whose column names are pairwise distinct
C4_DistinctNames ==
    DistinctNames => C4_BadSalaryNoReport

(***************************************************************************)
(* C5.  For a file with a header and data rows that all supply every       *)
(* header position, every column of the table get_data returns is as long  *)
(* as the file has data rows, and its i-th element is the i-th row's cell  *)
(* at a header position of that column's name.                             *)
(***************************************************************************)
C5_ColumnsAlignWithRows ==
    ( /\ Returned /\ with_csv(file) = DataPath
      /\ InputRecords # <<>>
      /\ \A r \in DOMAIN InputRows : Len(InputRows[r]) = Len(InputHeader) )
    => /\ Table.err = "none"
       /\ \A k \in DOMAIN Table.keys :
             LET col == Table.content[Table.keys[k]]
             IN  /\ Len(col) = Len(InputRows)
                 /\ \E p \in DOMAIN InputHeader :
                       /\ InputHeader[p] = Table.keys[k]
                       /\ \A i \in DOMAIN col : col[i] = InputRows[i][p]

\* C5 restricted to input files whose column names are pairwise distinct
C5_DistinctNames ==
    DistinctNames => C5_ColumnsAlignWithRows

(***************************************************************************)
(* C6.  When a run of main has failed, nothing has been printed, no output *)
(* file name has been prompted for and no output file exists; the prompt   *)
(* and the output file come only after get_reports has returned a report   *)
(* under selection 3.                                                      *)
(***************************************************************************)
C6_NoOutputOnFailure ==
    /\ (pc = "failed" \/ err # "none") =>
          /\ stdout = <<>>
          /\ outname = <<>>
          /\ DOMAIN disk = {DataPath}
    /\ (outname # <<>> \/ DOMAIN disk # {DataPath}) =>
          /\ mode = 3
          /\ report # <<>>
          /\ err = "none"
    /\ stdout # <<>> => (err = "none" /\ (teams # <<>> \/ report # <<>>))

\* selection 3 has failed on a salary cell that is no integer
C6_Witness ==
    pc = "failed" /\ mode = 3 /\ err = "ValueError@93"

(***************************************************************************)
(* C7.  After make_report_csv the output file holds the header row and     *)
(* then exactly one row per department of the report, as many as the       *)
(* table's department column has distinct values; the row of a department  *)
(* holds the department, min_salary, max_salary, head_count, mean_salary,  *)
(* in this order.                                                          *)
(***************************************************************************)
C7_OneRowPerDepartment ==
    (pc = "done" /\ mode = 3) =>
        LET out == disk[outname]
            rep == report[1]
        IN  /\ out # <<>>
            /\ out[1] = ReportHeader
            /\ Len(out) - 1 = Cardinality(DOMAIN rep)
            /\ Cardinality(DOMAIN rep) =
                  Cardinality({TableDepartments[i] : i \in DOMAIN TableDepartments})
            /\ \A D \in DOMAIN rep :
                  /\ Cardinality({i \in 2..Len(out) : out[i][1] = D}) = 1
                  /\ \A i \in 2..Len(out) :
                        out[i][1] = D =>
                            /\ Len(out[i]) = 5
                            /\ IntLiteral(out[i][2]) /\ int(out[i][2]) = rep[D].min_salary
                            /\ IntLiteral(out[i][3]) /\ int(out[i][3]) = rep[D].max_salary
                            /\ IntLiteral(out[i][4]) /\ int(out[i][4]) = rep[D].head_count
                            /\ FloatLiteral(out[i][5])
                            /\ float100(out[i][5]) = rep[D].mean_salary

\* a report of several departments has been exported, one of them with a
\* head count that differs from its salaries
C7_Witness ==
    /\ pc = "done" /\ mode = 3
    /\ Cardinality(DOMAIN report[1]) >= 2
    /\ \E D \in DOMAIN report[1] :
          /\ report[1][D].head_count # report[1][D].max_salary
          /\ report[1][D].min_salary # report[1][D].max_salary

(***************************************************************************)
(* C8.  Round trip of an exported report through get_data.                 *)
(***************************************************************************)
\* the exported file re-parsed by get_data, and re-aggregated by get_reports
Exported == get_data(disk, outname)
ReAggregated == get_reports(disk, outname)

\* the re-parsed table has the exported columns, and one row per department
\* whose cells read back as the department's original values
ExportedCellsMatch(rep) ==
    /\ Exported.err = "none"
    /\ Exported.keys = ReportHeader
    /\ \A k \in DOMAIN ReportHeader :
          Len(Exported.content[ReportHeader[k]]) = Cardinality(DOMAIN rep)
    /\ \A D \in DOMAIN rep :
          LET col(k) == Exported.content[ReportHeader[k]]
              at     == {i \in DOMAIN col(1) : col(1)[i] = D}
          IN  /\ Cardinality(at) = 1
              /\ \A i \in at :
                    /\ IntLiteral(col(2)[i]) /\ int(col(2)[i]) = rep[D].min_salary
                    /\ IntLiteral(col(3)[i]) /\ int(col(3)[i]) = rep[D].max_salary
                    /\ IntLiteral(col(4)[i]) /\ int(col(4)[i]) = rep[D].head_count
                    /\ FloatLiteral(col(5)[i])
                    /\ float100(col(5)[i]) = rep[D].mean_salary

\* C8 as stated: the cells read back as the original values, and
\* re-aggregating the re-parsed table returns the original numeric fields
C8_RoundTripReaggregates ==
    (pc = "done" /\ mode = 3) =>
        /\ ExportedCellsMatch(report[1])
        /\ ReAggregated.err = "none"
        /\ {ReAggregated.val[K] : K \in DOMAIN ReAggregated.val}
              = {report[1][D] : D \in DOMAIN report[1]}

\* C8 as amended: the cells read back as the original values; get_reports
\* on the exported file of a non-empty report fails at line 93 on the
\* mean-salary cell, and returns the empty report for the empty report
C8_RoundTripCells ==
    (pc = "done" /\ mode = 3) =>
        /\ ExportedCellsMatch(report[1])
        /\ DOMAIN report[1] # {} => ReAggregated.err = "ValueError@93"
        /\ DOMAIN report[1] = {} =>
              (ReAggregated.err = "none" /\ DOMAIN ReAggregated.val = {})

\* an exported report with a department of three rows and a mean of 4.67
\* or 7.33
C8_Witness ==
    /\ pc = "done" /\ mode = 3
    /\ outname \in DOMAIN disk
    /\ \E D \in DOMAIN report[1] : report[1][D].mean_salary % 100 \in {33, 67}

C10_EmptyDepartmentDoesNotRaise ==
    ( /\ Returned /\ mode \in {2, 3}
      /\ Table.err = "none" /\ Len(Table.keys) >= 2
      /\ \A i \in DOMAIN TableSalaries :
            i <= Len(TableDepartments) => IntLiteral(TableSalaries[i])
      /\ \E i \in DOMAIN TableDepartments :
            \A j \in DOMAIN TableDepartments :
                j <= Len(TableSalaries) => TableDepartments[j] # TableDepartments[i] )
    => err = "none"

====
